---------------------------- MODULE Spec2Model ----------------------------
(***************************************************************************)
(* RefAudioEmoTagger: a model of the four pipeline stages.                 *)
(*                                                                         *)
(*   recognize.py          run_recognition / process_audio_files / infer   *)
(*   classify.py           classify_audio_emotion / process_audio_file     *)
(*   preprocess_audio.py   filter_audio, rename_wav_with_txt               *)
(*                                                                         *)
(* Every stage is a state machine of its own over its own variables; the   *)
(* variable `stage` says which stage a behaviour runs, and the variables   *)
(* of the other stages keep their idle values.  SpecRecognize, SpecRoute,  *)
(* SpecFilter and SpecRename are the behaviours of one stage each; Spec is *)
(* their union.                                                            *)
(***************************************************************************)
EXTENDS Integers, Sequences, FiniteSets, TLC

VARIABLES
    stage,          \* "recognize" | "route" | "filter" | "rename"
    \* ---- recognize.py ----
    folder_exists,  \* Path(folder_path).exists()
    audio_paths,    \* glob result: the enumerated clips, a sequence of clip ids
    batch_size,     \* batch_size argument
    failing,        \* clips whose inference (pipeline call or append) raises
    ledger_exists,  \* output_file exists on disk
    ledger_header,  \* output_file starts with the header row (after to_csv)
    ledger_rows,    \* data rows of output_file, in file order (AudioPath of each)
    rpc,            \* position of run_recognition
    i,              \* loop variable of process_audio_files, line 87
    tasks,          \* every infer() coroutine created so far
    \* ---- classify.py ----
    log_exists,     \* log_path.exists()
    header_text,    \* "TextEmotion" in header
    rows,           \* the data rows csv.reader yields, each a sequence of fields
    max_workers,    \* max_workers argument
    src_files,      \* the source clips on disk: path -> bytes
    out_root,       \* output_path exists
    out_dirs,       \* the <character>/<emotion> directories under output_path
    out_files,      \* the files under output_path: destination -> bytes
    cpc,            \* position of classify_audio_emotion
    next_row,       \* the row the reader yields next
    futures,        \* the futures list: one record per submitted row
    run,            \* 1 in the first run, 2 in the run repeated after it
    out_after1,     \* out_files as the first run left it
    failed1,        \* destinations whose task ended in an error in the first run
    writes,         \* destination -> number of copies written to it in this run
    \* ---- preprocess_audio.py, filter_audio ----
    src_exists,     \* os.path.exists(src_folder)
    dst_given,      \* dst_folder is not None
    copy_parent_folder,
    disable_filter,
    min_duration,   \* in milliseconds
    max_duration,   \* in milliseconds
    tree,           \* the .wav files on disk: path -> clip
    duration,       \* clip -> duration in milliseconds, or Unreadable
    audio_files,    \* the glob result of line 15
    fpc,            \* position of filter_audio
    fk,             \* index of the loop of line 17 into audio_files
    evaluated,      \* the paths whose duration was probed and compared
    frun,           \* 1 in the first run of filter_audio, 2 in the run repeated after it
    tree_after1,    \* tree as the first run left it
    \* ---- preprocess_audio.py, rename_wav_with_txt ----
    wavs,           \* the .wav files on disk: path -> clip
    labs,           \* the .lab files of the directory: base name -> text
    posix,          \* os.rename replaces an existing target (POSIX) or raises
    lab_list,       \* the glob result of line 46
    rk,             \* index of the loop of line 46 into lab_list
    renamed_count,
    npc,            \* position of rename_wav_with_txt
    rename_log,     \* what was done for every caption handled so far
    \* ---- the ledger as text: infer, run_recognition, classify's reader ----
    clips,          \* the clips of the run: audio_path, its folder, the result
    lk,             \* the clip infer is called for next
    ledger_text,    \* the lines of output_file, each a text
    written,        \* the tuples infer has formatted into the rows it wrote
    parsed,         \* the tuples the router's csv.reader yields
    lpc,            \* position: "infer", "finalized", "raised", "routed"
    \* ---- audio_duration_filter.py ----
    walk_tree,      \* the .wav files on disk: path -> clip
    walk_duration,  \* clip -> duration in milliseconds, or Unreadable
    dst_folder_exists,
    walk_files,     \* the files os.walk yields, in its order
    wk,             \* index of the walk into walk_files
    wpc             \* position of process_audio_files

recVars == <<folder_exists, audio_paths, batch_size, failing, ledger_exists,
             ledger_header, ledger_rows, rpc, i, tasks>>

routeVars == <<log_exists, header_text, rows, max_workers, src_files, out_root,
               out_dirs, out_files, cpc, next_row, futures, run, out_after1,
               failed1, writes>>

filterVars == <<src_exists, dst_given, copy_parent_folder, disable_filter,
                min_duration, max_duration, tree, duration, audio_files, fpc, fk,
                evaluated, frun, tree_after1>>

renameVars == <<wavs, labs, posix, lab_list, rk, renamed_count, npc, rename_log>>

ledgerVars == <<clips, lk, ledger_text, written, parsed, lpc>>

walkVars == <<walk_tree, walk_duration, dst_folder_exists, walk_files, wk, wpc>>

vars == <<stage, recVars, routeVars, filterVars, renameVars, ledgerVars, walkVars>>

nonRecVars == <<stage, routeVars, filterVars, renameVars, ledgerVars, walkVars>>
nonRouteVars == <<stage, recVars, filterVars, renameVars, ledgerVars, walkVars>>
nonFilterVars == <<stage, recVars, routeVars, renameVars, ledgerVars, walkVars>>
nonRenameVars == <<stage, recVars, routeVars, filterVars, ledgerVars, walkVars>>
nonLedgerVars == <<stage, recVars, routeVars, filterVars, renameVars, walkVars>>
nonWalkVars == <<stage, recVars, routeVars, filterVars, renameVars, ledgerVars>>

(***************************************************************************)
(* Bounds of the model.                                                    *)
(***************************************************************************)
MaxClips == 3
MaxBatch == 2
MaxRows == 2
MaxWorkers == 2
MaxFiles == 3
MaxText == 2

Min(a, b) == IF a <= b THEN a ELSE b

Range(s) == {s[k] : k \in 1..Len(s)}

\* A map with no entry (an empty directory tree, an empty dict).
EmptyMap == [x \in {} |-> 0]

(***************************************************************************)
(*                        recognize.py                                     *)
(***************************************************************************)

\* A row left in output_file by an earlier run (its AudioPath is no clip of
\* this run).
StaleRow == 0

Clips == Range(audio_paths)

\* Number of rows of the ledger whose AudioPath is c.
RowCount(c) == Cardinality({k \in 1..Len(ledger_rows) : ledger_rows[k] = c})

\* The classify.py variables while another stage runs.
RouteIdle ==
    /\ log_exists = FALSE
    /\ header_text = FALSE
    /\ rows = <<>>
    /\ max_workers = 1
    /\ src_files = EmptyMap
    /\ out_root = FALSE
    /\ out_dirs = {}
    /\ out_files = EmptyMap
    /\ cpc = "idle"
    /\ next_row = 1
    /\ futures = <<>>
    /\ run = 1
    /\ out_after1 = EmptyMap
    /\ failed1 = {}
    /\ writes = EmptyMap

\* The rename_wav_with_txt variables while another stage runs.
RenameIdle ==
    /\ wavs = EmptyMap
    /\ labs = EmptyMap
    /\ posix = TRUE
    /\ lab_list = <<>>
    /\ rk = 1
    /\ renamed_count = 0
    /\ npc = "idle"
    /\ rename_log = <<>>

\* The filter_audio variables while another stage runs.
FilterIdle ==
    /\ src_exists = FALSE
    /\ dst_given = FALSE
    /\ copy_parent_folder = FALSE
    /\ disable_filter = FALSE
    /\ min_duration = 0
    /\ max_duration = 0
    /\ tree = EmptyMap
    /\ duration = EmptyMap
    /\ audio_files = <<>>
    /\ fpc = "idle"
    /\ fk = 1
    /\ evaluated = {}
    /\ frun = 1
    /\ tree_after1 = EmptyMap

\* The audio_duration_filter.py variables while another stage runs.
WalkIdle ==
    /\ walk_tree = EmptyMap
    /\ walk_duration = EmptyMap
    /\ dst_folder_exists = FALSE
    /\ walk_files = <<>>
    /\ wk = 1
    /\ wpc = "idle"

\* The variables of the ledger text while another stage runs.
LedgerIdle ==
    /\ clips = <<>>
    /\ lk = 1
    /\ ledger_text = <<>>
    /\ written = <<>>
    /\ parsed = <<>>
    /\ lpc = "idle"

\* The recognize.py variables while another stage runs.
RecIdle ==
    /\ folder_exists = FALSE
    /\ audio_paths = <<>>
    /\ batch_size = 1
    /\ failing = {}
    /\ ledger_exists = FALSE
    /\ ledger_header = FALSE
    /\ ledger_rows = <<>>
    /\ rpc = "idle"
    /\ i = 0
    /\ tasks = <<>>

\* The state in which run_recognition is called: a folder that may or may not
\* exist, holding n clips; an output_file that may be left from an earlier run.
InitRecognize ==
    /\ stage = "recognize"
    /\ folder_exists \in BOOLEAN
    /\ \E n \in 0..MaxClips :
          /\ audio_paths = [k \in 1..n |-> k]
          /\ failing \in SUBSET (1..n)
    /\ folder_exists = FALSE => audio_paths = <<>>
    /\ batch_size \in 1..MaxBatch
    /\ ledger_exists \in BOOLEAN
    /\ ledger_header = ledger_exists
    /\ ledger_rows \in {<<>>, <<StaleRow>>}
    /\ ledger_exists = FALSE => ledger_rows = <<>>
    /\ rpc = "start"
    /\ i = 0
    /\ tasks = <<>>
    /\ RouteIdle
    /\ FilterIdle
    /\ RenameIdle
    /\ LedgerIdle
    /\ WalkIdle

\* run_recognition, lines 137-138: a pre-existing output_file is deleted.
Unlink ==
    /\ stage = "recognize"
    /\ rpc = "start"
    /\ ledger_exists' = FALSE
    /\ ledger_header' = FALSE
    /\ ledger_rows' = <<>>
    /\ rpc' = "enter"
    /\ UNCHANGED <<nonRecVars, folder_exists, audio_paths, batch_size, failing, i, tasks>>

\* process_audio_files, lines 77-86: a missing folder is logged and the
\* function returns None to run_recognition, which goes on to the read-back.
EnterProcess ==
    /\ stage = "recognize"
    /\ rpc = "enter"
    /\ rpc' = IF folder_exists THEN "loop" ELSE "readback"
    /\ i' = 0
    /\ UNCHANGED <<nonRecVars, folder_exists, audio_paths, batch_size, failing,
                   ledger_exists, ledger_header, ledger_rows, tasks>>

\* islice(dataloader, batch_size), line 89: islice calls iter(dataloader), and
\* a DataLoader hands out a fresh iterator, starting at the first clip, every
\* time: the clips of every batch are the first batch_size clips.
BatchClips == SubSeq(audio_paths, 1, Min(batch_size, Len(audio_paths)))

\* lines 87-90: one round of the outer loop creates the coroutines of a batch.
OpenBatch ==
    /\ stage = "recognize"
    /\ rpc = "loop"
    /\ i < Len(audio_paths)
    /\ tasks' = tasks \o [k \in 1..Len(BatchClips) |->
                            [clip |-> BatchClips[k], batch |-> i, st |-> "pending"]]
    /\ rpc' = "gather"
    /\ UNCHANGED <<nonRecVars, folder_exists, audio_paths, batch_size, failing,
                   ledger_exists, ledger_header, ledger_rows, i>>

\* range(0, len(dataset), batch_size) is exhausted: line 92, the function
\* returns and run_recognition goes on to the read-back.
LoopExit ==
    /\ stage = "recognize"
    /\ rpc = "loop"
    /\ i >= Len(audio_paths)
    /\ rpc' = "readback"
    /\ UNCHANGED <<nonRecVars, folder_exists, audio_paths, batch_size, failing,
                   ledger_exists, ledger_header, ledger_rows, i, tasks>>

\* infer, lines 60-63: the task runs the recognition pipeline.  It raises for
\* a failing clip (nothing catches it: the task ends with the exception);
\* otherwise it suspends at aiofiles.open with its row ready.
InferStart(t) ==
    /\ stage = "recognize"
    /\ rpc = "gather"
    /\ tasks[t].st = "pending"
    /\ tasks' = [tasks EXCEPT ![t].st =
                    IF tasks[t].clip \in failing THEN "failed" ELSE "writing"]
    /\ UNCHANGED <<nonRecVars, folder_exists, audio_paths, batch_size, failing,
                   ledger_exists, ledger_header, ledger_rows, rpc, i>>

\* infer, lines 64-66: the row is appended to output_file (mode 'a' creates
\* the file).  A task that was started goes on after the run was aborted,
\* until the loop is closed.
InferWrite(t) ==
    /\ stage = "recognize"
    /\ rpc \in {"gather", "aborted"}
    /\ tasks[t].st = "writing"
    /\ ledger_rows' = Append(ledger_rows, tasks[t].clip)
    /\ ledger_exists' = TRUE
    /\ tasks' = [tasks EXCEPT ![t].st = "done"]
    /\ UNCHANGED <<nonRecVars, folder_exists, audio_paths, batch_size, failing,
                   ledger_header, rpc, i>>

CurrentBatch == {t \in 1..Len(tasks) : tasks[t].batch = i}

\* Mutant of BatchSettled: the loop goes on as soon as one task of the batch
\* has completed (asyncio.wait(..., return_when=FIRST_COMPLETED)).
BatchSettled_FirstCompleted == \E t \in CurrentBatch : tasks[t].st = "done"

\* await asyncio.gather(*batch_tasks), line 91: the loop goes on when every
\* task of the batch has completed.
BatchSettled == \A t \in CurrentBatch : tasks[t].st = "done"

GatherDone ==
    /\ stage = "recognize"
    /\ rpc = "gather"
    /\ BatchSettled
    /\ i' = i + batch_size
    /\ rpc' = "loop"
    /\ UNCHANGED <<nonRecVars, folder_exists, audio_paths, batch_size, failing,
                   ledger_exists, ledger_header, ledger_rows, tasks>>

\* Mutant of GatherRaise: the exception of a task is swallowed and the loop
\* goes on with the next batch while the other tasks of the batch run on
\* (gather(..., return_exceptions=True) that returns at the first exception).
GatherRaise_Continue ==
    /\ stage = "recognize"
    /\ rpc = "gather"
    /\ \E t \in CurrentBatch : tasks[t].st = "failed"
    /\ i' = i + batch_size
    /\ rpc' = "loop"
    /\ UNCHANGED <<nonRecVars, folder_exists, audio_paths, batch_size, failing,
                   ledger_exists, ledger_header, ledger_rows, tasks>>

\* line 91, gather without return_exceptions: the first exception of a task
\* is raised in process_audio_files, which has no handler, and neither has
\* run_recognition (line 140): the run ends there, before lines 142-152.
GatherRaise ==
    /\ stage = "recognize"
    /\ rpc = "gather"
    /\ \E t \in CurrentBatch : tasks[t].st = "failed"
    /\ rpc' = "aborted"
    /\ UNCHANGED <<nonRecVars, folder_exists, audio_paths, batch_size, failing,
                   ledger_exists, ledger_header, ledger_rows, i, tasks>>

\* asyncio.run closes the loop of an aborted run: the tasks still pending are
\* cancelled.
CancelTask(t) ==
    /\ stage = "recognize"
    /\ rpc = "aborted"
    /\ tasks[t].st \in {"pending", "writing"}
    /\ tasks' = [tasks EXCEPT ![t].st = "cancelled"]
    /\ UNCHANGED <<nonRecVars, folder_exists, audio_paths, batch_size, failing,
                   ledger_exists, ledger_header, ledger_rows, rpc, i>>

\* run_recognition, lines 142-152: the rows are read back (header=None) if the
\* file exists, and the frame is written with its header row.
ReadBack ==
    /\ stage = "recognize"
    /\ rpc = "readback"
    /\ ledger_exists' = TRUE
    /\ ledger_header' = TRUE
    /\ ledger_rows' = IF ledger_exists THEN ledger_rows ELSE <<>>
    /\ rpc' = "finalized"
    /\ UNCHANGED <<nonRecVars, folder_exists, audio_paths, batch_size, failing, i, tasks>>

NextRecognize ==
    \/ Unlink
    \/ EnterProcess
    \/ OpenBatch
    \/ LoopExit
    \/ \E t \in 1..Len(tasks) : InferStart(t)
    \/ \E t \in 1..Len(tasks) : InferWrite(t)
    \/ GatherDone
    \/ GatherRaise
    \/ \E t \in 1..Len(tasks) : CancelTask(t)
    \/ ReadBack

SpecRecognize == InitRecognize /\ [][NextRecognize]_vars

(***************************************************************************)
(*                        classify.py                                      *)
(***************************************************************************)

\* The emotion labels of the ledger: Neutral stands for the label of line 18
\* (the two-character Chinese word for "neutral"), Happy and Sad for two
\* other labels of the recognizer.
Neutral == "neutral"
Happy == "happy"
Sad == "sad"

\* Python's None.
None == "<None>"

\* Source clips named in the ledger, as sequences of path components.  ClipA
\* and ClipB have the same file name and the same parent folder; ClipGone is
\* not on disk.
ClipA == <<"a", "x", "c.wav">>
ClipB == <<"b", "x", "c.wav">>
ClipGone == <<"a", "x", "gone.wav">>

\* Path(...).name
PathName(path) == path[Len(path)]

\* The rows a ledger is made of: AudioPath, AudioEmotion, Confidence,
\* ParentFolder and, in a ledger with text emotions, TextEmotion.  A blank
\* line is read as the empty row; two rows are short.
RowChoices ==
    { <<ClipA, Happy, "0.9", "x", "">>,
      <<ClipB, Happy, "0.9", "x", "">>,
      <<ClipA, Happy, "0.9", "x", Sad>>,
      <<ClipA, Neutral, "0.9", "x", Sad>>,
      <<ClipA, Happy, "0.9", "x", Happy>>,
      <<ClipGone, Happy, "0.9", "x", "">>,
      <<ClipA, Happy, "0.9", "x">>,
      <<ClipA, Happy, "0.9">>,
      <<>> }

SeqsUpTo(S, n) == UNION {[1..k -> S] : k \in 0..n}

\* The state in which classify_audio_emotion is called for the first time: a
\* ledger, the source clips, an output root that does not exist yet.
InitRoute ==
    /\ stage = "route"
    /\ log_exists \in BOOLEAN
    /\ header_text \in BOOLEAN
    /\ rows \in SeqsUpTo(RowChoices, MaxRows)
    /\ log_exists = FALSE => (rows = <<>> /\ header_text = FALSE)
    /\ max_workers \in 1..MaxWorkers
    /\ src_files = (ClipA :> "bytesA") @@ (ClipB :> "bytesB")
    /\ out_root = FALSE
    /\ out_dirs = {}
    /\ out_files = EmptyMap
    /\ cpc = "start"
    /\ next_row = 1
    /\ futures = <<>>
    /\ run = 1
    /\ out_after1 = EmptyMap
    /\ failed1 = {}
    /\ writes = EmptyMap
    /\ RecIdle
    /\ FilterIdle
    /\ RenameIdle
    /\ LedgerIdle
    /\ WalkIdle

\* classify_audio_emotion, lines 59-62: the fields read from a row.  An index
\* past the end of the row raises IndexError.
RowReadable(row) ==
    /\ Len(row) >= 2
    /\ header_text => Len(row) >= 5

RowAudioPath(row) == row[1]
RowAudioEmotion(row) == row[2]
RowCharacter(row) == IF Len(row) > 3 THEN row[4] ELSE "Unknown"
RowTextEmotion(row) == IF header_text THEN row[5] ELSE None

\* Mutant of EmotionMismatch: the neutral label does not bypass the check.
EmotionMismatch_NoNeutralBypass(audio_emotion, text_emotion) ==
    /\ text_emotion # None
    /\ audio_emotion # text_emotion
    /\ text_emotion # ""

\* process_audio_file, lines 17-18: the row is skipped for an emotion mismatch.
EmotionMismatch(audio_emotion, text_emotion) ==
    /\ text_emotion # None
    /\ audio_emotion # text_emotion
    /\ audio_emotion # Neutral
    /\ text_emotion # ""

\* process_audio_file, lines 22-27: output_path/character/audio_emotion/ and
\* the file name, the emotion tag in brackets before the clip's own name.
DstPath(row) ==
    [character |-> RowCharacter(row),
     emotion   |-> RowAudioEmotion(row),
     tag       |-> RowAudioEmotion(row),
     name      |-> PathName(RowAudioPath(row))]

\* Mutant of DstExists: the destination is never found to exist.
DstExists_Never(dst) == FALSE

\* dst_path.exists(), line 29.
DstExists(dst) == dst \in DOMAIN out_files

Put(map, key, val) == [k \in DOMAIN map \cup {key} |-> IF k = key THEN val ELSE map[k]]

Count(map, key) == IF key \in DOMAIN map THEN map[key] ELSE 0

\* Mutant of ClassifyEnter: output_path is created before the ledger is
\* looked for.
ClassifyEnter_MkdirFirst ==
    /\ stage = "route"
    /\ cpc = "start"
    /\ out_root' = TRUE
    /\ cpc' = IF log_exists THEN "submit" ELSE "done"
    /\ next_row' = 1
    /\ UNCHANGED <<nonRouteVars, log_exists, header_text, rows, max_workers, src_files,
                   out_dirs, out_files, futures, run, out_after1, failed1, writes>>

\* classify_audio_emotion, lines 39-54.  A missing ledger is logged and the
\* function returns; otherwise output_path is created and the header read.
ClassifyEnter ==
    /\ stage = "route"
    /\ cpc = "start"
    /\ IF log_exists
         THEN /\ out_root' = TRUE
              /\ cpc' = "submit"
         ELSE /\ out_root' = out_root
              /\ cpc' = "done"
    /\ next_row' = 1
    /\ UNCHANGED <<nonRouteVars, log_exists, header_text, rows, max_workers, src_files,
                   out_dirs, out_files, futures, run, out_after1, failed1, writes>>

\* lines 58-64: the main thread reads the next row and submits its task.  A
\* row too short for the fields read raises IndexError in the main thread:
\* the loop is left, and the with statement of line 56 waits for the tasks
\* submitted so far before the exception leaves classify_audio_emotion.
Submit ==
    /\ stage = "route"
    /\ cpc = "submit"
    /\ next_row <= Len(rows)
    /\ IF RowReadable(rows[next_row])
         THEN /\ futures' = Append(futures, [row |-> next_row, st |-> "queued",
                                             absent |-> FALSE, outcome |-> "none"])
              /\ next_row' = next_row + 1
              /\ cpc' = cpc
         ELSE /\ cpc' = "raising"
              /\ UNCHANGED <<futures, next_row>>
    /\ UNCHANGED <<nonRouteVars, log_exists, header_text, rows, max_workers, src_files,
                   out_root, out_dirs, out_files, run, out_after1, failed1, writes>>

\* the reader is exhausted: lines 66-69 wait for the futures.
SubmitEnd ==
    /\ stage = "route"
    /\ cpc = "submit"
    /\ next_row > Len(rows)
    /\ cpc' = "wait"
    /\ UNCHANGED <<nonRouteVars, log_exists, header_text, rows, max_workers, src_files,
                   out_root, out_dirs, out_files, next_row, futures, run, out_after1,
                   failed1, writes>>

Running == {t \in 1..Len(futures) : futures[t].st = "checked"}
Queued == {t \in 1..Len(futures) : futures[t].st = "queued"}

\* Mutant of WorkerFree: the pool starts a thread for every task.
WorkerFree_Unbounded == TRUE

\* ThreadPoolExecutor(max_workers=max_workers), line 56: a queued task waits
\* for one of the max_workers threads.
WorkerFree == Cardinality(Running) < max_workers

NoteFailure(dst) == IF run = 1 THEN failed1 \cup {dst} ELSE failed1

\* process_audio_file, lines 11-29, run by a free worker thread on the oldest
\* queued task: the source check, the mismatch policy, mkdir and the
\* existence check of the destination.  mkdir may raise (the exception is
\* kept in the future and logged at line 69).
TaskCheck(t) ==
    /\ stage = "route"
    /\ cpc \in {"submit", "wait", "raising"}
    /\ t \in Queued
    /\ \A u \in Queued : t <= u
    /\ WorkerFree
    /\ LET row == rows[futures[t].row]
           dst == DstPath(row)
           end(o) == [futures EXCEPT ![t].st = "done", ![t].outcome = o]
       IN  IF RowAudioPath(row) \notin DOMAIN src_files
             THEN /\ futures' = end("nosrc")
                  /\ UNCHANGED <<out_dirs, failed1>>
             ELSE IF EmotionMismatch(RowAudioEmotion(row), RowTextEmotion(row))
             THEN /\ futures' = end("mismatch")
                  /\ UNCHANGED <<out_dirs, failed1>>
             ELSE \/ /\ futures' = end("exception")
                     /\ failed1' = NoteFailure(dst)
                     /\ UNCHANGED out_dirs
                  \/ /\ out_dirs' = out_dirs \cup {<<dst.character, dst.emotion>>}
                     /\ futures' = IF DstExists(dst)
                                     THEN end("exists")
                                     ELSE [futures EXCEPT ![t].st = "checked",
                                                          ![t].absent = dst \notin DOMAIN out_files]
                     /\ UNCHANGED failed1
    /\ UNCHANGED <<nonRouteVars, log_exists, header_text, rows, max_workers, src_files,
                   out_root, out_files, cpc, next_row, run, out_after1, writes>>

\* Mutant of TaskCopy: the clip is moved (shutil.move): the source is gone
\* once the destination is written.
TaskCopy_Move(t) ==
    /\ stage = "route"
    /\ cpc \in {"submit", "wait", "raising"}
    /\ t \in Running
    /\ LET row == rows[futures[t].row]
           dst == DstPath(row)
           src == RowAudioPath(row)
       IN  /\ out_files' = Put(out_files, dst, src_files[src])
           /\ src_files' = [q \in DOMAIN src_files \ {src} |-> src_files[q]]
           /\ writes' = Put(writes, dst, Count(writes, dst) + 1)
           /\ futures' = [futures EXCEPT ![t].st = "done", ![t].outcome = "copied"]
    /\ UNCHANGED <<nonRouteVars, log_exists, header_text, rows, max_workers,
                   out_root, out_dirs, cpc, next_row, run, out_after1, failed1>>

\* process_audio_file, lines 30-34: shutil.copy.  It writes the source's
\* bytes to the destination, or raises OSError, which is caught and logged,
\* before the destination was opened or after a part of it was written.
TaskCopy(t) ==
    /\ stage = "route"
    /\ cpc \in {"submit", "wait", "raising"}
    /\ t \in Running
    /\ LET row == rows[futures[t].row]
           dst == DstPath(row)
       IN  \/ /\ out_files' = Put(out_files, dst, src_files[RowAudioPath(row)])
              /\ writes' = Put(writes, dst, Count(writes, dst) + 1)
              /\ futures' = [futures EXCEPT ![t].st = "done", ![t].outcome = "copied"]
              /\ UNCHANGED failed1
           \/ /\ out_files' = Put(out_files, dst, "partial")
              /\ writes' = Put(writes, dst, Count(writes, dst) + 1)
              /\ futures' = [futures EXCEPT ![t].st = "done", ![t].outcome = "copyfail"]
              /\ failed1' = NoteFailure(dst)
           \/ /\ futures' = [futures EXCEPT ![t].st = "done", ![t].outcome = "copyfail"]
              /\ failed1' = NoteFailure(dst)
              /\ UNCHANGED <<out_files, writes>>
    /\ UNCHANGED <<nonRouteVars, log_exists, header_text, rows, max_workers, src_files,
                   out_root, out_dirs, cpc, next_row, run, out_after1>>

AllTasksDone == \A t \in 1..Len(futures) : futures[t].st = "done"

\* lines 66-69 and the end of the with statement: every future has completed.
Finish ==
    /\ stage = "route"
    /\ cpc = "wait"
    /\ AllTasksDone
    /\ cpc' = "done"
    /\ UNCHANGED <<nonRouteVars, log_exists, header_text, rows, max_workers, src_files,
                   out_root, out_dirs, out_files, next_row, futures, run, out_after1,
                   failed1, writes>>

\* the IndexError of line 59, 60 or 62 leaves classify_audio_emotion once the
\* executor has shut down.
RaiseOut ==
    /\ stage = "route"
    /\ cpc = "raising"
    /\ AllTasksDone
    /\ cpc' = "raised"
    /\ UNCHANGED <<nonRouteVars, log_exists, header_text, rows, max_workers, src_files,
                   out_root, out_dirs, out_files, next_row, futures, run, out_after1,
                   failed1, writes>>

\* classify_audio_emotion is called again on the same ledger, the same source
\* clips and the same output root.
Rerun ==
    /\ stage = "route"
    /\ cpc \in {"done", "raised"}
    /\ run = 1
    /\ run' = 2
    /\ out_after1' = out_files
    /\ cpc' = "start"
    /\ next_row' = 1
    /\ futures' = <<>>
    /\ writes' = EmptyMap
    /\ UNCHANGED <<nonRouteVars, log_exists, header_text, rows, max_workers, src_files,
                   out_root, out_dirs, out_files, failed1>>

NextRoute ==
    \/ ClassifyEnter
    \/ Submit
    \/ SubmitEnd
    \/ \E t \in 1..Len(futures) : TaskCheck(t)
    \/ \E t \in 1..Len(futures) : TaskCopy(t)
    \/ Finish
    \/ RaiseOut
    \/ Rerun

SpecRoute == InitRoute /\ [][NextRoute]_vars

(***************************************************************************)
(*                 preprocess_audio.py: filter_audio                       *)
(***************************************************************************)

\* The defaults of min_duration and max_duration, in seconds, and a value
\* between them.
DefaultMinDuration == 3
DefaultMaxDuration == 10
MidDuration == 5

\* Durations are counted in milliseconds.
Ms == 1000

\* The result of a probe that raises (AudioSegment.from_wav on a file it
\* cannot decode).
Unreadable == 0 - 1

\* The durations a clip may have: the two bounds, one millisecond outside
\* each of them, and a value between them.
Durations ==
    { DefaultMinDuration * Ms - 1, DefaultMinDuration * Ms, MidDuration * Ms,
      DefaultMaxDuration * Ms, DefaultMaxDuration * Ms + 1 }

\* The .wav files of the source tree, by number: a clip of the root, and
\* clips of a subfolder, one of the same file name as the root's.  A path is
\* a root ("src" or "dst"), whether it lies under the folder named after
\* src_folder, the folder below that, the file name, and the number of
\* "filtered_" prefixes before the file name.
SrcDirs == <<"", "sub", "sub", "">>
SrcNames == <<"a.wav", "a.wav", "b.wav", "b.wav">>

SrcPath(k) ==
    [root |-> "src", nest |-> FALSE, dir |-> SrcDirs[k], name |-> SrcNames[k], pre |-> 0]

\* The state in which filter_audio is called: n clips under src_folder, each
\* with its duration, and an empty destination.
InitFilter ==
    /\ stage = "filter"
    /\ src_exists \in BOOLEAN
    /\ dst_given \in BOOLEAN
    /\ copy_parent_folder \in BOOLEAN
    /\ disable_filter \in BOOLEAN
    /\ min_duration \in {DefaultMinDuration * Ms, MidDuration * Ms}
    /\ max_duration \in {MidDuration * Ms, DefaultMaxDuration * Ms}
    /\ \E n \in 0..Min(MaxFiles, Len(SrcNames)) :
          /\ tree = [q \in {SrcPath(k) : k \in 1..n} |->
                        CHOOSE k \in 1..n : SrcPath(k) = q]
          /\ duration \in [1..n -> Durations \cup {Unreadable}]
    /\ src_exists = FALSE => tree = EmptyMap
    /\ audio_files = <<>>
    /\ fpc = "start"
    /\ fk = 1
    /\ evaluated = {}
    /\ frun = 1
    /\ tree_after1 = EmptyMap
    /\ RecIdle
    /\ RouteIdle
    /\ RenameIdle
    /\ LedgerIdle
    /\ WalkIdle

\* A set of paths as a sequence, in the order in which the directory scan
\* yields them.
RECURSIVE Listing(_)
Listing(S) ==
    IF S = {} THEN <<>>
    ELSE LET q == CHOOSE x \in S : \A y \in S : tree[x] <= tree[y]
         IN  <<q>> \o Listing(S \ {q})

\* glob.glob(os.path.join(src_folder, "**", "*.wav"), recursive=True), line 15
Glob == Listing({q \in DOMAIN tree : q.root = "src"})

\* lines 18-31: where a clip of the source is written to.
FilterDstPath(src_path) ==
    IF disable_filter THEN src_path
    ELSE IF ~dst_given THEN [src_path EXCEPT !.pre = @ + 1]
    ELSE [src_path EXCEPT !.root = "dst", !.nest = copy_parent_folder]

\* Mutant of InRange: the lower bound is exclusive.
InRange_LowerExclusive(d) == min_duration < d /\ d <= max_duration

\* line 34
InRange(d) == min_duration <= d /\ d <= max_duration

\* filter_audio, lines 11-15.  A missing source folder is logged and the
\* function returns.
FilterEnter ==
    /\ stage = "filter"
    /\ fpc = "start"
    /\ IF src_exists
         THEN /\ audio_files' = Glob
              /\ fpc' = "loop"
         ELSE /\ audio_files' = <<>>
              /\ fpc' = "done"
    /\ fk' = 1
    /\ UNCHANGED <<nonFilterVars, src_exists, dst_given, copy_parent_folder,
                   disable_filter, min_duration, max_duration, tree, duration,
                   evaluated, frun, tree_after1>>

\* One round of the loop of lines 17-38.  With the filter disabled nothing is
\* probed or copied.  With it enabled the probe of line 33 raises for a clip
\* it cannot read, and nothing in filter_audio catches it; a clip in range
\* is copied by copy2 (taken to succeed on a clip that could be read).
FilterStep ==
    /\ stage = "filter"
    /\ fpc = "loop"
    /\ fk <= Len(audio_files)
    /\ LET src_path == audio_files[fk]
           dst_path == FilterDstPath(src_path)
           d == duration[tree[src_path]]
       IN  IF disable_filter
             THEN /\ fk' = fk + 1
                  /\ UNCHANGED <<tree, fpc, evaluated>>
             ELSE IF d = Unreadable
             THEN /\ fpc' = "raised"
                  /\ UNCHANGED <<tree, fk, evaluated>>
             ELSE /\ tree' = IF InRange(d) THEN Put(tree, dst_path, tree[src_path])
                                            ELSE tree
                  /\ evaluated' = evaluated \cup {src_path}
                  /\ fk' = fk + 1
                  /\ fpc' = fpc
    /\ UNCHANGED <<nonFilterVars, src_exists, dst_given, copy_parent_folder,
                   disable_filter, min_duration, max_duration, duration, audio_files,
                   frun, tree_after1>>

\* the loop is over: lines 40-41
FilterEnd ==
    /\ stage = "filter"
    /\ fpc = "loop"
    /\ fk > Len(audio_files)
    /\ fpc' = "done"
    /\ UNCHANGED <<nonFilterVars, src_exists, dst_given, copy_parent_folder,
                   disable_filter, min_duration, max_duration, tree, duration,
                   audio_files, fk, evaluated, frun, tree_after1>>

\* filter_audio is called again with the same arguments on the tree the
\* first run left.
FilterRerun ==
    /\ stage = "filter"
    /\ fpc \in {"done", "raised"}
    /\ frun = 1
    /\ frun' = 2
    /\ tree_after1' = tree
    /\ audio_files' = <<>>
    /\ fk' = 1
    /\ evaluated' = {}
    /\ fpc' = "start"
    /\ UNCHANGED <<nonFilterVars, src_exists, dst_given, copy_parent_folder,
                   disable_filter, min_duration, max_duration, tree, duration>>

NextFilter ==
    \/ FilterEnter
    \/ FilterStep
    \/ FilterEnd
    \/ FilterRerun

SpecFilter == InitFilter /\ [][NextFilter]_vars

(***************************************************************************)
(*                 preprocess_audio.py: rename_wav_with_txt                *)
(***************************************************************************)

\* A text (a caption, a base name) is a sequence of tokens: a blank, the
\* letters "a" and "b", and "/d", which stands for the absolute path of a
\* directory that exists on disk.
Blank == " "
DirToken == "/d"
Tokens == {Blank, "a", "b", DirToken}

\* The base names of the directory's clips and captions.
BaseNames == {<<"a">>, <<"b">>}

\* str.strip(), line 51
RECURSIVE StripLeft(_)
StripLeft(text) ==
    IF text # <<>> /\ Head(text) = Blank THEN StripLeft(Tail(text)) ELSE text

RECURSIVE StripRight(_)
StripRight(text) ==
    IF text # <<>> /\ text[Len(text)] = Blank
      THEN StripRight(SubSeq(text, 1, Len(text) - 1))
      ELSE text

Strip(text) == StripRight(StripLeft(text))

\* os.path.join(os.path.dirname(wav_file), f"{name}.wav"), lines 47 and 53:
\* the path of the .wav file of that name.  A name that starts with an
\* absolute path replaces the directory; a name with a path separator
\* further on lies in a subdirectory.
WavPath(name) ==
    [abs |-> name # <<>> /\ Head(name) = DirToken, name |-> name]

\* The directory a path lies in exists: the directory itself and the root
\* do, a subdirectory named by a caption does not.
ParentExists(path) ==
    \A k \in 2..Len(path.name) : path.name[k] # DirToken

\* The paths that exist on disk besides the clips: the directory that
\* DirToken names.
ExistingPaths == {<<DirToken>>}

\* The state in which rename_wav_with_txt is called: a directory with some
\* of the clips a.wav and b.wav and some of the captions a.lab and b.lab.
InitRename ==
    /\ stage = "rename"
    /\ \E W \in SUBSET BaseNames : wavs = [q \in {WavPath(b) : b \in W} |-> q.name]
    /\ \E L \in SUBSET BaseNames : labs \in [L -> SeqsUpTo(Tokens, MaxText)]
    /\ posix \in BOOLEAN
    /\ lab_list = <<>>
    /\ rk = 1
    /\ renamed_count = 0
    /\ npc = "start"
    /\ rename_log = <<>>
    /\ RecIdle
    /\ RouteIdle
    /\ FilterIdle
    /\ LedgerIdle
    /\ WalkIdle

\* glob.glob(os.path.join(directory, "**", "*.lab"), recursive=True), line 46
RECURSIVE LabListing(_)
LabListing(S) ==
    IF S = {} THEN <<>>
    ELSE LET b == IF <<"a">> \in S THEN <<"a">> ELSE CHOOSE x \in S : TRUE
         IN  <<b>> \o LabListing(S \ {b})

\* lines 44-46
RenameEnter ==
    /\ stage = "rename"
    /\ npc = "start"
    /\ lab_list' = LabListing(DOMAIN labs)
    /\ rk' = 1
    /\ renamed_count' = 0
    /\ npc' = "loop"
    /\ UNCHANGED <<nonRenameVars, wavs, labs, posix, rename_log>>

\* os.rename(wav_file, new_wav_file), line 57: the tree after the rename.
Renamed(from, to) ==
    [q \in (DOMAIN wavs \ {from}) \cup {to} |-> IF q = to THEN wavs[from] ELSE wavs[q]]

\* line 55
NeedsRename(new_wav_file, wav_file) == new_wav_file # wav_file

\* Mutant of RenameStep: renamed_count is incremented before os.rename is
\* called, so a rename that raises is counted.
RenameStep_CountFirst ==
    /\ stage = "rename"
    /\ npc = "loop"
    /\ rk <= Len(lab_list)
    /\ LET base == lab_list[rk]
           wav_file == WavPath(base)
           new_name == Strip(labs[base])
           new_wav_file == WavPath(new_name)
           entry(act) == [lab |-> base, new_name |-> new_name, act |-> act,
                          before |-> wavs, after |-> wavs', counted |-> renamed_count']
       IN  /\ IF wav_file \notin DOMAIN wavs
                THEN /\ UNCHANGED <<wavs, renamed_count>>
                     /\ rename_log' = Append(rename_log, entry("nowav"))
                ELSE IF ~NeedsRename(new_wav_file, wav_file)
                THEN /\ UNCHANGED <<wavs, renamed_count>>
                     /\ rename_log' = Append(rename_log, entry("same"))
                ELSE \/ /\ ParentExists(new_wav_file)
                        /\ posix \/ new_wav_file \notin DOMAIN wavs
                        /\ wavs' = Renamed(wav_file, new_wav_file)
                        /\ renamed_count' = renamed_count + 1
                        /\ rename_log' = Append(rename_log, entry("renamed"))
                     \/ /\ UNCHANGED wavs
                        /\ renamed_count' = renamed_count + 1
                        /\ rename_log' = Append(rename_log, entry("oserror"))
    /\ rk' = rk + 1
    /\ UNCHANGED <<nonRenameVars, labs, posix, lab_list, npc>>

\* One round of the loop of lines 46-63.  os.rename raises OSError when the
\* directory of the target does not exist, when the target exists and the
\* platform does not replace it, and whenever the file system refuses
\* (invalid characters, permissions); the OSError is caught and logged.
RenameStep ==
    /\ stage = "rename"
    /\ npc = "loop"
    /\ rk <= Len(lab_list)
    /\ LET base == lab_list[rk]
           wav_file == WavPath(base)
           new_name == Strip(labs[base])
           new_wav_file == WavPath(new_name)
           entry(act) == [lab |-> base, new_name |-> new_name, act |-> act,
                          before |-> wavs, after |-> wavs', counted |-> renamed_count']
       IN  /\ IF wav_file \notin DOMAIN wavs
                THEN /\ UNCHANGED <<wavs, renamed_count>>
                     /\ rename_log' = Append(rename_log, entry("nowav"))
                ELSE IF ~NeedsRename(new_wav_file, wav_file)
                THEN /\ UNCHANGED <<wavs, renamed_count>>
                     /\ rename_log' = Append(rename_log, entry("same"))
                ELSE \/ /\ ParentExists(new_wav_file)
                        /\ posix \/ new_wav_file \notin DOMAIN wavs
                        /\ wavs' = Renamed(wav_file, new_wav_file)
                        /\ renamed_count' = renamed_count + 1
                        /\ rename_log' = Append(rename_log, entry("renamed"))
                     \/ /\ UNCHANGED <<wavs, renamed_count>>
                        /\ rename_log' = Append(rename_log, entry("oserror"))
    /\ rk' = rk + 1
    /\ UNCHANGED <<nonRenameVars, labs, posix, lab_list, npc>>

\* lines 65-67
RenameEnd ==
    /\ stage = "rename"
    /\ npc = "loop"
    /\ rk > Len(lab_list)
    /\ npc' = "done"
    /\ UNCHANGED <<nonRenameVars, wavs, labs, posix, lab_list, rk, renamed_count,
                   rename_log>>

NextRename ==
    \/ RenameEnter
    \/ RenameStep
    \/ RenameEnd

SpecRename == InitRename /\ [][NextRename]_vars

(***************************************************************************)
(*   the ledger as text: infer and run_recognition of recognize.py, and    *)
(*   the csv.reader of classify.py                                         *)
(***************************************************************************)

\* At most MaxLines clips are inferred in a run, and the recognition service
\* returns at most MaxLabels (label, score) pairs for a clip.
MaxLines == 2
MaxLabels == 2

\* A text (a path, a label, a line of the ledger) is a sequence of tokens.
\* Bar is the delimiter of the ledger, Slash the separator of a path and of
\* the two halves of a label.
Bar == "|"
Slash == "/"

\* folder_path, the names of the folders below it (one holds the delimiter,
\* one is made of digits), and the file name of a clip.
Root == <<"r">>
FolderNames == {<<"x">>, <<"x", Bar, "y">>, <<"001">>}
FileName == <<"c.wav">>

\* The labels of the recognition service, in the order it returns them, and
\* the scores it may give.
ServiceLabels == << <<"zh1", Slash, "en1">>, <<"unk">>, <<"zh2", Slash, "en2">> >>
ScoreValues == {1, 2}

\* sep.join(texts)
RECURSIVE Join(_, _)
Join(texts, sep) ==
    IF texts = <<>> THEN <<>>
    ELSE IF Len(texts) = 1 THEN texts[1]
    ELSE texts[1] \o <<sep>> \o Join(Tail(texts), sep)

\* text.split(sep), and the fields of a line of a delimited file that quotes
\* nothing
RECURSIVE Split(_, _)
Split(text, sep) ==
    IF \A k \in 1..Len(text) : text[k] # sep THEN <<text>>
    ELSE LET k == CHOOSE j \in 1..Len(text) :
                     text[j] = sep /\ \A m \in 1..(j - 1) : text[m] # sep
         IN  <<SubSeq(text, 1, k - 1)>> \o Split(SubSeq(text, k + 1, Len(text)), sep)

\* os.path.basename and os.path.dirname
Basename(path) == LET parts == Split(path, Slash) IN parts[Len(parts)]
Dirname(path) ==
    LET parts == Split(path, Slash) IN Join(SubSeq(parts, 1, Len(parts) - 1), Slash)

\* recognition_result[0]: n labels with their scores
Results ==
    UNION {{[labels |-> SubSeq(ServiceLabels, 1, n), scores |-> sc] :
               sc \in [1..n -> ScoreValues]} :
           n \in 1..Min(MaxLabels, Len(ServiceLabels))}

\* The clips glob finds: directly in folder_path or in a folder below it.
ClipDirs == {<<Root>>} \cup {<<Root, f>> : f \in FolderNames}

ClipChoices ==
    {[path |-> Join(d \o <<FileName>>, Slash), folder |-> d[Len(d)], result |-> r] :
        d \in ClipDirs, r \in Results}

\* The state in which the rows of a run are written: the clips with what the
\* recognition service returns for each, and no output_file (run_recognition
\* has deleted it).
InitLedger ==
    /\ stage = "ledger"
    /\ clips \in SeqsUpTo(ClipChoices, MaxLines)
    /\ lk = 1
    /\ ledger_text = <<>>
    /\ written = <<>>
    /\ parsed = <<>>
    /\ lpc = "infer"
    /\ RecIdle
    /\ RouteIdle
    /\ FilterIdle
    /\ RenameIdle
    /\ WalkIdle

\* max(scores), line 72
MaxOf(scores) == CHOOSE m \in Range(scores) : \A v \in Range(scores) : v <= m

\* list.index(value): the first position that holds the value
RECURSIVE IndexOf(_, _)
IndexOf(s, v) == IF Head(s) = v THEN 1 ELSE 1 + IndexOf(Tail(s), v)

\* Mutant of TopIndex: the last position that holds the highest score.
TopIndex_Last(scores) ==
    CHOOSE k \in 1..Len(scores) :
        scores[k] = MaxOf(scores) /\ \A m \in (k + 1)..Len(scores) : scores[m] # MaxOf(scores)

\* top_index = scores.index(max(scores)), line 72
TopIndex(scores) == IndexOf(scores, MaxOf(scores))

\* _get_top_emotion_with_confidence, lines 69-73
GetTopEmotionWithConfidence(recognition_result) ==
    LET top_index == TopIndex(recognition_result.scores)
    IN  [emotion    |-> Split(recognition_result.labels[top_index], Slash)[1],
         confidence |-> recognition_result.scores[top_index]]

\* f"{confidence}": the text of a score
ScoreText(n) == <<ToString(n)>>


\* result_str without its newline, line 63: the four values, each formatted
\* as it is, with the delimiter between them.
ResultStr(audio_path, top_emotion, confidence) ==
    Join(<<audio_path, top_emotion, ScoreText(confidence), Basename(Dirname(audio_path))>>,
         Bar)

\* infer, lines 62-66, for the next clip: the row is formatted and appended to
\* output_file.
InferRow ==
    /\ stage = "ledger"
    /\ lpc = "infer"
    /\ lk <= Len(clips)
    /\ LET audio_path == clips[lk].path
           top == GetTopEmotionWithConfidence(clips[lk].result)
       IN  /\ ledger_text' = Append(ledger_text,
                                    ResultStr(audio_path, top.emotion, top.confidence))
           /\ written' = Append(written,
                                [audio_path |-> audio_path,
                                 emotion    |-> top.emotion,
                                 confidence |-> top.confidence,
                                 parent     |-> Basename(Dirname(audio_path))])
    /\ lk' = lk + 1
    /\ UNCHANGED <<nonLedgerVars, clips, parsed, lpc>>

\* The fields of a line for pd.read_csv(sep='|') and for
\* csv.reader(delimiter='|').
Fields(line) == Split(line, Bar)

\* The names passed to read_csv, line 143, and the header row to_csv writes.
Names == << <<"AudioPath">>, <<"AudioEmotion">>, <<"Confidence">>, <<"ParentFolder">> >>
HeaderLine == Join(Names, Bar)

\* read_csv raises ParserError for a line with more fields than the first
\* line of the file.
ReadCsvFails(lines) ==
    \E k \in 1..Len(lines) : Len(Fields(lines[k])) > Len(Fields(lines[1]))

\* The cells read_csv files under the four names for line k.  When the lines
\* have more fields than there are names, the names go to the last columns
\* and the columns before them become the index; a line shorter than the
\* first one is filled up with missing cells.
Cells(lines, k) ==
    LET extra == Len(Fields(lines[1])) - Len(Names)
        f == Fields(lines[k])
    IN  [c \in 1..Len(Names) |-> IF extra + c <= Len(f) THEN f[extra + c] ELSE <<>>]

\* The texts read_csv takes for numbers, and the text to_csv writes for the
\* number: the digits of a score as they are, "001" as 1.
IsNumber(text) == text \in {ScoreText(n) : n \in ScoreValues} \cup {<<"001">>}
NumberText(text) == IF text = <<"001">> THEN <<"1">> ELSE text

\* The frame of line 143 as to_csv(index=False) writes it: a column whose
\* cells are all numbers is a numeric column, every other column holds the
\* texts as read (a missing cell is written empty).
FrameRows(lines) ==
    [k \in 1..Len(lines) |->
        [c \in 1..Len(Names) |->
            IF \A j \in 1..Len(lines) : IsNumber(Cells(lines, j)[c])
              THEN NumberText(Cells(lines, k)[c])
              ELSE Cells(lines, k)[c]]]

\* run_recognition, lines 142-151, text emotion disabled: the rows are read
\* back (an output_file that no row created gives the empty frame) and the
\* frame is written with its header row, without the index.
Finalize ==
    /\ stage = "ledger"
    /\ lpc = "infer"
    /\ lk > Len(clips)
    /\ ~ReadCsvFails(ledger_text)
    /\ ledger_text' = <<HeaderLine>> \o
                      [k \in 1..Len(ledger_text) |-> Join(FrameRows(ledger_text)[k], Bar)]
    /\ lpc' = "finalized"
    /\ UNCHANGED <<nonLedgerVars, clips, lk, written, parsed>>

\* line 143 raises: the exception leaves run_recognition and the rows stay
\* as infer wrote them.
ReadCsvRaise ==
    /\ stage = "ledger"
    /\ lpc = "infer"
    /\ lk > Len(clips)
    /\ ReadCsvFails(ledger_text)
    /\ lpc' = "raised"
    /\ UNCHANGED <<nonLedgerVars, clips, lk, ledger_text, written, parsed>>

\* classify_audio_emotion, lines 48-62: the reader takes the header with
\* next(), then yields the fields of every further line; row[0], row[1],
\* row[2] and row[3] are AudioPath, AudioEmotion, Confidence, ParentFolder.
ReaderRows ==
    /\ stage = "ledger"
    /\ lpc = "finalized"
    /\ parsed' = [k \in 1..(Len(ledger_text) - 1) |->
                    LET row == Fields(ledger_text[k + 1])
                    IN  <<row[1], row[2], row[3], row[4]>>]
    /\ lpc' = "routed"
    /\ UNCHANGED <<nonLedgerVars, clips, lk, ledger_text, written>>

NextLedger ==
    \/ InferRow
    \/ Finalize
    \/ ReadCsvRaise
    \/ ReaderRows

SpecLedger == InitLedger /\ [][NextLedger]_vars

(***************************************************************************)
(*        audio_duration_filter.py: the filter that works in place         *)
(***************************************************************************)

\* The bounds of line 8, in seconds.
InplaceMinDuration == 3
InplaceMaxDuration == 10

\* The state in which process_audio_files is called: n clips under
\* src_folder (the clips of SrcPath), each with its duration, and a
\* dst_folder, outside src_folder, that is empty or does not exist.
InitWalk ==
    /\ stage = "walk"
    /\ \E n \in 0..Min(MaxFiles, Len(SrcNames)) :
          /\ walk_tree = [q \in {SrcPath(k) : k \in 1..n} |->
                             CHOOSE k \in 1..n : SrcPath(k) = q]
          /\ walk_duration \in [1..n -> Durations \cup {Unreadable}]
    /\ dst_folder_exists \in BOOLEAN
    /\ walk_files = <<>>
    /\ wk = 1
    /\ wpc = "start"
    /\ RecIdle
    /\ RouteIdle
    /\ FilterIdle
    /\ RenameIdle
    /\ LedgerIdle

\* os.walk(src_folder), line 17: the files of src_folder itself come before
\* the files of the folder below it.
RECURSIVE WalkListing(_)
WalkListing(S) ==
    IF S = {} THEN <<>>
    ELSE LET top == {x \in S : x.dir = ""}
             from == IF top # {} THEN top ELSE S
             q == CHOOSE x \in from : \A y \in from : walk_tree[x] <= walk_tree[y]
         IN  <<q>> \o WalkListing(S \ {q})

\* dst_path = os.path.join(dst_folder, file), line 21: the file name alone
\* under dst_folder, whatever folder the clip is in.
WalkDstPath(src_path) ==
    [root |-> "dst", nest |-> FALSE, dir |-> "", name |-> src_path.name, pre |-> 0]

\* 3 <= duration <= 10, line 8
WalkInRange(d) == InplaceMinDuration * Ms <= d /\ d <= InplaceMaxDuration * Ms

\* The tree without the file at path q.
Removed(map, q) == [x \in DOMAIN map \ {q} |-> map[x]]

\* line 17: the walk starts.
WalkEnter ==
    /\ stage = "walk"
    /\ wpc = "start"
    /\ walk_files' = WalkListing({q \in DOMAIN walk_tree : q.root = "src"})
    /\ wk' = 1
    /\ wpc' = "walk"
    /\ UNCHANGED <<nonWalkVars, walk_tree, walk_duration, dst_folder_exists>>

\* process_audio_file for the next file of the walk, lines 18-22 and 5-13.
\* The probe of line 6 raises for a clip it cannot read and shutil.move
\* raises when dst_folder does not exist; nothing catches either.  A clip in
\* range is moved to dst_path, replacing a file that is already there; any
\* other clip is removed.
WalkStep ==
    /\ stage = "walk"
    /\ wpc = "walk"
    /\ wk <= Len(walk_files)
    /\ LET src_path == walk_files[wk]
           dst_path == WalkDstPath(src_path)
           d == walk_duration[walk_tree[src_path]]
       IN  IF d = Unreadable \/ (WalkInRange(d) /\ ~dst_folder_exists)
             THEN /\ wpc' = "raised"
                  /\ UNCHANGED <<walk_tree, wk>>
             ELSE /\ walk_tree' = IF WalkInRange(d)
                                    THEN Put(Removed(walk_tree, src_path), dst_path,
                                             walk_tree[src_path])
                                    ELSE Removed(walk_tree, src_path)
                  /\ wk' = wk + 1
                  /\ wpc' = wpc
    /\ UNCHANGED <<nonWalkVars, walk_duration, dst_folder_exists, walk_files>>

\* the walk is over
WalkEnd ==
    /\ stage = "walk"
    /\ wpc = "walk"
    /\ wk > Len(walk_files)
    /\ wpc' = "done"
    /\ UNCHANGED <<nonWalkVars, walk_tree, walk_duration, dst_folder_exists,
                   walk_files, wk>>

NextWalk ==
    \/ WalkEnter
    \/ WalkStep
    \/ WalkEnd

SpecWalk == InitWalk /\ [][NextWalk]_vars

(***************************************************************************)
(*                 properties of recognize.py                              *)
(***************************************************************************)

\* The coroutines that were created and have not ended.
InFlight == {t \in 1..Len(tasks) : tasks[t].st \in {"pending", "writing"}}

RecognizeEnded ==
    /\ stage = "recognize"
    /\ rpc \in {"finalized", "aborted"}
    /\ InFlight = {}

\* C1: when process_audio_files has finished, the ledger holds exactly one
\* row for every enumerated clip whose inference did not fail and no row
\* for any other clip; no AudioPath appears in two rows and there are at
\* most as many rows as clips.
C1_OneRowPerClip ==
    (stage = "recognize" /\ folder_exists /\ rpc \in {"readback", "finalized"}) =>
        /\ \A c \in Clips : RowCount(c) = IF c \in failing THEN 0 ELSE 1
        /\ Range(ledger_rows) \subseteq Clips
        /\ Len(ledger_rows) <= Len(audio_paths)

\* C2: when the inference of a clip raises, the run is not aborted: once the
\* run has ended the ledger is finalized (header written), the failed clip
\* has no row and every other clip has its row.
C2_FailureIsolated ==
    (RecognizeEnded /\ \E t \in 1..Len(tasks) : tasks[t].st = "failed") =>
        /\ rpc = "finalized"
        /\ ledger_header
        /\ \A c \in Clips \ failing : RowCount(c) >= 1
        /\ \A c \in failing : RowCount(c) = 0

\* C3: at every point of a run at most batch_size inference requests are
\* outstanding, and all of them belong to the batch that is open: a batch is
\* opened only after every request of the batch before it has completed.
C3_BoundedInFlight ==
    stage = "recognize" =>
        /\ Cardinality(InFlight) <= batch_size
        /\ \A t \in InFlight : tasks[t].batch = i

\* C3, witness: in a batch after the first one, batch_size = 2 requests are
\* suspended at their append at the same time.
C3_Witness ==
    /\ stage = "recognize"
    /\ batch_size = 2
    /\ i > 0
    /\ Cardinality({t \in 1..Len(tasks) : tasks[t].st = "writing"}) = 2

\* The clips whose row was appended by a task of this run.
WrittenThisRun == {tasks[t].clip : t \in {u \in 1..Len(tasks) : tasks[u].st = "done"}}

\* C12: every run_recognition run ends with a finalized ledger made of the
\* header row followed only by rows written during this run: whatever the
\* ledger path held before, the file exists and starts with the header, no
\* row of an earlier run is in it, and a run in which no clip was recognized
\* leaves a header-only ledger.
C12_FreshLedgerFinalized ==
    RecognizeEnded =>
        /\ ledger_exists
        /\ ledger_header
        /\ StaleRow \notin Range(ledger_rows)
        /\ Range(ledger_rows) \subseteq WrittenThisRun
        /\ WrittenThisRun = {} => ledger_rows = <<>>

\* C13: the ledger is read back only after every inference task that was
\* dispatched has completed its append: in no state in which run_recognition
\* is at or past the read-back is a task pending or suspended at its write,
\* and every row a task has appended is in the ledger that is read.
C13_ReadAfterWrites ==
    (stage = "recognize" /\ rpc \in {"readback", "finalized"}) =>
        /\ InFlight = {}
        /\ Len(ledger_rows) = Cardinality({t \in 1..Len(tasks) : tasks[t].st = "done"})

\* C13, witness: the ledger was read back and finalized after two batches of
\* two tasks each had appended their rows.
C13_Witness ==
    /\ stage = "recognize"
    /\ rpc = "finalized"
    /\ batch_size = 2
    /\ Len(tasks) = 4
    /\ Len(ledger_rows) = 4

\* C19: a missing input folder aborts the stage at its entry: no step of a
\* run_recognition run whose clip folder does not exist deletes, creates or
\* rewrites the ledger or starts an inference, and no step of a filter_audio
\* run whose source folder does not exist changes a file.
C19_MissingFolderAborts ==
    [][ /\ (stage = "recognize" /\ ~folder_exists) =>
              (UNCHANGED <<ledger_exists, ledger_header, ledger_rows>> /\ tasks' = <<>>)
        /\ (stage = "filter" /\ ~src_exists) => UNCHANGED tree ]_vars

(***************************************************************************)
(*                 properties of classify.py                               *)
(***************************************************************************)

RouteEnded == stage = "route" /\ log_exists /\ cpc \in {"done", "raised"}

\* The tasks whose process_audio_file has passed lines 13-20.
Decided == {t \in 1..Len(futures) : futures[t].st # "queued"}

\* C4: a row whose source clip exists is skipped if and only if a TextEmotion
\* is present, non-empty, different from AudioEmotion, and AudioEmotion is
\* not the neutral label; a neutral row is routed whatever its TextEmotion,
\* a happy row with a sad text is not, a row with an empty TextEmotion or of
\* a ledger without the column always is; a row that was routed without an
\* error has its file at the destination.
C4_SkipIffMismatch ==
    stage = "route" =>
      \A t \in Decided :
        LET row == rows[futures[t].row]
            a == row[2]
            skipped == futures[t].outcome = "mismatch"
        IN  row[1] \in DOMAIN src_files =>
              /\ skipped <=> (header_text /\ row[5] # "" /\ row[5] # a /\ a # Neutral)
              /\ a = Neutral => ~skipped
              /\ (header_text /\ a = Happy /\ row[5] = Sad) => skipped
              /\ (~header_text \/ row[5] = "") => ~skipped
              /\ ~skipped => futures[t].outcome # "nosrc"
              /\ futures[t].outcome \in {"copied", "exists"} =>
                    DstPath(row) \in DOMAIN out_files

\* C4, witness: in one run a happy row with a sad text was skipped and a
\* neutral row with a sad text was copied.
C4_Witness ==
    /\ stage = "route"
    /\ header_text
    /\ \E t \in Decided : /\ rows[futures[t].row][2] = Happy
                          /\ rows[futures[t].row][5] = Sad
                          /\ futures[t].outcome = "mismatch"
    /\ \E t \in Decided : /\ rows[futures[t].row][2] = Neutral
                          /\ rows[futures[t].row][5] = Sad
                          /\ futures[t].outcome = "copied"

\* C5: a second run on the same ledger, source clips and output root leaves
\* exactly the files, with the contents, that the first run left: it creates
\* no file and overwrites none.
C5_SecondRunNoChange ==
    (stage = "route" /\ run = 2) => (out_files = out_after1 /\ writes = EmptyMap)

\* C5, amended: the second run changes and overwrites no file the first run
\* left, and it creates a file only at a destination whose task ended in an
\* error (the copy or the task raised) in the first run; when no task of
\* the first run ended in an error, the files are exactly those of the
\* first run.
C5_RerunKeepsFiles ==
    (stage = "route" /\ run = 2) =>
        /\ \A d \in DOMAIN out_after1 :
              d \in DOMAIN out_files /\ out_files[d] = out_after1[d]
        /\ DOMAIN writes \cap DOMAIN out_after1 = {}
        /\ \A d \in DOMAIN out_files \ DOMAIN out_after1 : d \in failed1
        /\ failed1 = {} => (out_files = out_after1 /\ writes = EmptyMap)

\* C5, witness: the second run has ended, and it skipped a row whose file the
\* first run had copied.
C5_Witness ==
    /\ stage = "route"
    /\ run = 2
    /\ cpc = "done"
    /\ failed1 = {}
    /\ \E t \in 1..Len(futures) :
          /\ futures[t].outcome = "exists"
          /\ DstPath(rows[futures[t].row]) \in DOMAIN out_after1

\* C6: under every interleaving of the worker threads each destination path
\* is written at most once in a run.
C6_WrittenAtMostOnce ==
    stage = "route" => \A d \in DOMAIN writes : writes[d] <= 1

\* C6, amended: a task copies to a destination only if its own existence
\* check found the destination absent, so a file that is there before the
\* check is never overwritten by that task, and with a single worker thread
\* every destination is written at most once in a run.  (With several
\* workers two rows that resolve to one destination may both pass the check
\* before either copies, and both write.)
C6_WriteOnlyIfAbsentAtCheck ==
    stage = "route" =>
        /\ \A t \in 1..Len(futures) :
              (futures[t].st = "checked" \/ futures[t].outcome \in {"copied", "copyfail"})
                 => futures[t].absent
        /\ max_workers = 1 => \A d \in DOMAIN writes : writes[d] <= 1

\* C6, witness: two rows that resolve to one destination have both passed
\* the existence check and both have written the destination.
C6_Witness ==
    /\ stage = "route"
    /\ \E d \in DOMAIN writes : writes[d] = 2
    /\ \E t, u \in 1..Len(futures) :
          /\ t # u
          /\ DstPath(rows[futures[t].row]) = DstPath(rows[futures[u].row])
          /\ futures[t].outcome = "copied"
          /\ futures[u].outcome = "copied"

\* C7: a failure while handling one row, a row with too few fields included,
\* never terminates the batch: when the run ends no exception has left it
\* and every row that can be read has been submitted and processed.
C7_AllRowsProcessed ==
    RouteEnded =>
        /\ cpc = "done"
        /\ \A k \in 1..Len(rows) :
              RowReadable(rows[k]) =>
                 \E t \in 1..Len(futures) : futures[t].row = k /\ futures[t].st = "done"

\* C11: when the ledger file does not exist, classify_audio_emotion returns
\* without any file operation: in no state of the run, or of a run repeated
\* after it, is there an output root, a bucket directory or a destination
\* file, no task was submitted to the pool, no source clip was touched, and
\* the function is either not yet entered or has returned.
C11_MissingLedgerNoFileOp ==
    (stage = "route" /\ ~log_exists) =>
        /\ out_root = FALSE
        /\ out_dirs = {}
        /\ out_files = EmptyMap
        /\ futures = <<>>
        /\ writes = EmptyMap
        /\ cpc \in {"start", "done"}

\* C11, witness: classify_audio_emotion was called without a ledger and has
\* returned.
C11_Witness ==
    /\ stage = "route"
    /\ ~log_exists
    /\ cpc = "done"
    /\ out_root = FALSE

\* The tasks whose row was accepted: the source exists, the policy did not
\* skip it and no error ended the task.
Accepted == {t \in 1..Len(futures) : futures[t].outcome \in {"copied", "exists"}}

\* The destination files of the bucket <character>/<emotion>.
BucketFiles(b) == {d \in DOMAIN out_files : <<d.character, d.emotion>> = b}

\* The source AudioPaths of the accepted rows of a bucket.
BucketSources(b) ==
    {RowAudioPath(rows[futures[t].row]) :
        t \in {u \in Accepted : LET d == DstPath(rows[futures[u].row])
                                 IN  <<d.character, d.emotion>> = b}}

\* C14: in a first run on an empty output root every file of a bucket
\* <character>/<emotion> is named by the emotion tag of the bucket followed
\* by the file name of a row of that character and emotion; and when the run
\* has ended without an error the bucket holds one copy, with the source's
\* bytes, for each distinct accepted source AudioPath of the bucket.
C14_BucketContents ==
    (stage = "route" /\ run = 1) =>
        /\ \A d \in DOMAIN out_files :
              /\ d.tag = d.emotion
              /\ \E k \in 1..Len(rows) : RowReadable(rows[k]) /\ d = DstPath(rows[k])
        /\ (cpc = "done" /\ failed1 = {}) =>
              \A b \in out_dirs :
                 /\ Cardinality(BucketFiles(b)) = Cardinality(BucketSources(b))
                 /\ \A p \in BucketSources(b) :
                       \E d \in BucketFiles(b) :
                          d.name = PathName(p) /\ out_files[d] = src_files[p]

\* C15: the router copies and never moves: no step of a run, or of a run
\* repeated after it, changes a source clip (its path or its bytes) or the
\* ledger (its existence, its header, its rows), whether the row is routed,
\* skipped by policy, skipped as already present, or fails.
C15_SourcesUntouched ==
    [][stage = "route" => UNCHANGED <<src_files, log_exists, header_text, rows>>]_vars

\* C15, witness: a run has ended in which one row was copied and the copy of
\* another failed, and both source clips are on disk with their bytes.
C15_Witness ==
    /\ stage = "route"
    /\ cpc = "done"
    /\ \E t \in 1..Len(futures) : futures[t].outcome = "copied"
    /\ \E t \in 1..Len(futures) : futures[t].outcome = "copyfail"
    /\ ClipA \in DOMAIN src_files /\ src_files[ClipA] = "bytesA"
    /\ ClipB \in DOMAIN src_files /\ src_files[ClipB] = "bytesB"

(***************************************************************************)
(*                 properties of filter_audio                              *)
(***************************************************************************)

\* The paths filter_audio writes to: the destination root, or the siblings
\* with the "filtered_" prefix.
IsOutput(q) == q.root = "dst" \/ q.pre > 0

\* The clip c is at the path q.
Holds(q, c) == q \in DOMAIN tree /\ tree[q] = c

\* C8: with filtering enabled, a clip whose duration d was probed is at its
\* destination path if and only if min_duration <= d <= max_duration, both
\* bounds included (3 s and 10 s kept, 2.999 s and 10.001 s not); no clip
\* outside the interval is anywhere in the destination; and a run that ends
\* without an exception has probed every clip found.
C8_KeptIffInRange ==
    (stage = "filter" /\ ~disable_filter) =>
        /\ \A q \in evaluated :
              LET d == duration[tree[q]]
                  kept == Holds(FilterDstPath(q), tree[q])
              IN  /\ kept <=> (min_duration <= d /\ d <= max_duration)
                  /\ (d = min_duration \/ d = max_duration) => kept
                  /\ (d = min_duration - 1 \/ d = max_duration + 1) => ~kept
        /\ \A q \in DOMAIN tree :
              IsOutput(q) =>
                 /\ duration[tree[q]] >= min_duration
                 /\ duration[tree[q]] <= max_duration
        /\ fpc = "done" => evaluated = Range(audio_files)

\* C8, witness: a run with the default bounds has ended; it kept a clip of
\* 3 s and a clip of 10 s and did not keep a clip of 10.001 s.
C8_Witness ==
    /\ stage = "filter"
    /\ ~disable_filter
    /\ fpc = "done"
    /\ min_duration = DefaultMinDuration * Ms
    /\ max_duration = DefaultMaxDuration * Ms
    /\ \E q \in evaluated : /\ duration[tree[q]] = DefaultMinDuration * Ms
                            /\ Holds(FilterDstPath(q), tree[q])
    /\ \E q \in evaluated : /\ duration[tree[q]] = DefaultMaxDuration * Ms
                            /\ Holds(FilterDstPath(q), tree[q])
    /\ \E q \in evaluated : /\ duration[tree[q]] = DefaultMaxDuration * Ms + 1
                            /\ ~Holds(FilterDstPath(q), tree[q])

\* C10: a clip whose duration cannot be probed is an error for that clip
\* only: no exception leaves filter_audio, and when the run has ended every
\* other clip found has been evaluated and, when in range, is at its
\* destination.
C10_ProbeFailureIsolated ==
    (stage = "filter" /\ ~disable_filter /\ fpc \in {"done", "raised"}) =>
        /\ fpc = "done"
        /\ \A k \in 1..Len(audio_files) :
              LET q == audio_files[k]
                  d == duration[tree[q]]
              IN  d # Unreadable =>
                    /\ q \in evaluated
                    /\ (min_duration <= d /\ d <= max_duration)
                          => Holds(FilterDstPath(q), tree[q])

\* C22: a second run of filter_audio with the same arguments on the tree the
\* first run left yields the same set of files as the first run alone: in
\* no state of the second run does the tree hold a file, or a content, that
\* the first run did not leave, with a destination root and without one.
C22_RerunSameFiles ==
    (stage = "filter" /\ frun = 2) => tree = tree_after1

(***************************************************************************)
(*                 properties of the ledger text                           *)
(***************************************************************************)

\* The position of the highest score of a result; of several positions with
\* the highest score, the first.
HighestFirst(result) ==
    CHOOSE j \in 1..Len(result.scores) :
        /\ \A m \in 1..Len(result.scores) : result.scores[m] <= result.scores[j]
        /\ \A m \in 1..(j - 1) : result.scores[m] < result.scores[j]

\* The text of a label up to its first Slash (the whole label if it has none).
BeforeSlash(label) ==
    CHOOSE p \in {SubSeq(label, 1, n) : n \in 0..Len(label)} :
        /\ \A k \in 1..Len(p) : p[k] # Slash
        /\ Len(p) = Len(label) \/ label[Len(p) + 1] = Slash

\* C17: the row written for a clip carries the label of the highest score,
\* the first such label when several share the highest score, that score as
\* Confidence, and as ParentFolder the name of the directory the clip is in.
C17_RowCarriesTopLabel ==
    stage = "ledger" =>
      \A k \in 1..Len(written) :
        LET result == clips[k].result
            j == HighestFirst(result)
        IN  /\ written[k].emotion = result.labels[j]
            /\ written[k].confidence = result.scores[j]
            /\ written[k].parent = clips[k].folder

\* C17, amended: the row written for a clip carries, as its Emotion, the text
\* before the first "/" of the label of the highest score (the whole label
\* when it has no "/"), the first such label when several share the highest
\* score; that score as Confidence; as ParentFolder the name of the directory
\* the clip is in; and the line appended is these values after the
\* AudioPath, with the delimiter between them.
C17_RowCarriesTopEmotion ==
    stage = "ledger" =>
      \A k \in 1..Len(written) :
        LET result == clips[k].result
            j == HighestFirst(result)
        IN  /\ written[k].audio_path = clips[k].path
            /\ written[k].emotion = BeforeSlash(result.labels[j])
            /\ written[k].confidence = result.scores[j]
            /\ written[k].parent = clips[k].folder
            /\ lpc = "infer" =>
                  ledger_text[k] = clips[k].path \o <<Bar>> \o written[k].emotion \o
                                   <<Bar, ToString(written[k].confidence), Bar>> \o
                                   clips[k].folder

\* C17, witness: two rows were written, one for a clip whose two labels share
\* the highest score (the first label was taken), one for a clip of folder
\* x whose second label has the highest score.
C17_Witness ==
    /\ stage = "ledger"
    /\ Len(written) = 2
    /\ clips[1].result.scores = <<2, 2>>
    /\ written[1].emotion = <<"zh1">>
    /\ clips[2].result.scores = <<1, 2>>
    /\ written[2].emotion = <<"unk">>
    /\ written[2].confidence = 2
    /\ written[2].parent = <<"x">>

\* C18: the ledger round trip: reading the finalized ledger through the
\* router's parser always succeeds and yields, in order, exactly the tuples
\* (AudioPath, AudioEmotion, Confidence, ParentFolder) of the rows written,
\* one per row, whatever the AudioPath and the folder name are.
C18_LedgerRoundTrip ==
    (stage = "ledger" /\ lpc \in {"raised", "routed"}) =>
        /\ lpc = "routed"
        /\ Len(parsed) = Len(written)
        /\ \A k \in 1..Len(written) :
              parsed[k] = <<written[k].audio_path, written[k].emotion,
                            ScoreText(written[k].confidence), written[k].parent>>

(***************************************************************************)
(*                 properties of audio_duration_filter.py                  *)
(***************************************************************************)

\* C21: when the walk has ended, it has ended without an exception, no clip
\* found is left under the source, and a clip is in the destination folder
\* if and only if its duration is within [3, 10] seconds: every kept clip is
\* there, also when two kept clips of different folders have one file name.
C21_InplaceKeepsInRange ==
    (stage = "walk" /\ wpc \in {"done", "raised"}) =>
        /\ wpc = "done"
        /\ \A q \in DOMAIN walk_tree : q.root # "src"
        /\ \A c \in DOMAIN walk_duration :
              (\E q \in DOMAIN walk_tree : q.root = "dst" /\ walk_tree[q] = c)
                 <=> /\ walk_duration[c] >= InplaceMinDuration * Ms
                     /\ walk_duration[c] <= InplaceMaxDuration * Ms

(***************************************************************************)
(*                 properties of rename_wav_with_txt                       *)
(***************************************************************************)

\* The number of renames counted before the k-th caption was handled.
CountBefore(k) == IF k = 1 THEN 0 ELSE rename_log[k - 1].counted

\* C9: for a caption whose clip exists, the rename is skipped, the clip left
\* untouched under its name and nothing counted, whenever the trimmed text
\* is empty, is an existing path on disk, or is the clip's current name;
\* only otherwise is the clip renamed to <trimmed text>.wav in its directory.
C9_SkipsInvalidTargets ==
    stage = "rename" =>
      \A k \in 1..Len(rename_log) :
        LET e == rename_log[k]
            invalid == \/ e.new_name = <<>>
                       \/ e.new_name \in ExistingPaths
                       \/ e.new_name = e.lab
        IN  WavPath(e.lab) \in DOMAIN e.before =>
              /\ invalid => /\ e.after = e.before
                            /\ e.counted = CountBefore(k)
              /\ e.after # e.before =>
                    /\ ~invalid
                    /\ WavPath(e.lab) \notin DOMAIN e.after
                    /\ WavPath(e.new_name) \in DOMAIN e.after
                    /\ e.after[WavPath(e.new_name)] = e.before[WavPath(e.lab)]

\* The captions handled so far for which the clip was renamed on disk.
ActuallyRenamed == {k \in 1..Len(rename_log) : rename_log[k].after # rename_log[k].before}

\* C16: the count returned is exactly the number of clips actually renamed:
\* a caption without its .wav and a rename that raised OSError leave the
\* files as they were and are not counted, every rename done is counted
\* once, and whatever happened for a caption the loop went on, so that at the
\* return every caption found has been handled.
C16_CountsActualRenames ==
    stage = "rename" =>
        /\ renamed_count = Cardinality(ActuallyRenamed)
        /\ \A k \in 1..Len(rename_log) :
              LET e == rename_log[k]
              IN  /\ e.act \in {"nowav", "oserror"} =>
                        (e.after = e.before /\ e.counted = CountBefore(k))
                  /\ e.act = "renamed" =>
                        (e.after # e.before /\ e.counted = CountBefore(k) + 1)
                  /\ e.act = "nowav" <=> WavPath(e.lab) \notin DOMAIN e.before
        /\ npc = "loop" => Len(rename_log) = rk - 1
        /\ npc = "done" =>
              (Len(rename_log) = Len(lab_list) /\ Range(lab_list) = DOMAIN labs)

\* C16, witness: the function has returned 1 after two captions: the rename
\* for the first raised OSError, and the clip of the second was renamed.
C16_Witness ==
    /\ stage = "rename"
    /\ npc = "done"
    /\ Len(rename_log) = 2
    /\ rename_log[1].act = "oserror"
    /\ rename_log[2].act = "renamed"
    /\ renamed_count = 1

\* C20: rename_wav_with_txt never destroys a clip: handling a caption leaves
\* as many .wav files as there were, every clip that was on disk is still
\* there under some name, and a clip that already has the name the caption
\* asks for is not overwritten.
C20_NoClipDestroyed ==
    stage = "rename" =>
      \A k \in 1..Len(rename_log) :
        LET e == rename_log[k]
            target == WavPath(e.new_name)
        IN  /\ Cardinality(DOMAIN e.after) = Cardinality(DOMAIN e.before)
            /\ \A q \in DOMAIN e.before : \E r \in DOMAIN e.after : e.after[r] = e.before[q]
            /\ (target \in DOMAIN e.before /\ target # WavPath(e.lab)) =>
                  (target \in DOMAIN e.after /\ e.after[target] = e.before[target])

(***************************************************************************)
(*                        the whole pipeline                               *)
(***************************************************************************)
Init == InitRecognize \/ InitRoute \/ InitFilter \/ InitRename \/ InitLedger \/ InitWalk

Next == NextRecognize \/ NextRoute \/ NextFilter \/ NextRename \/ NextLedger \/ NextWalk

Spec == Init /\ [][Next]_vars

=============================================================================
